---------------------------- MODULE Spec2Model ----------------------------
(***************************************************************************)
(* A model of leo_segmentation: the meta-training episode of               *)
(* LEO.compute_loss (model.py), the checkpoint store save_model /           *)
(* load_model (model.py and utils.py), calc_iou_per_class (utils.py) and    *)
(* the tensor shapes of the forward pass (model.py).                        *)
(*                                                                         *)
(* Modelling conventions.                                                  *)
(*  - Tensors are abstracted to one integer each: the decoder weights, the  *)
(*    segmentation-head weight seg_weight, a latent, a gradient.            *)
(*  - Gradients and losses delivered by autograd are inputs, drawn from     *)
(*    Grads.  Grads holds multiples of GradUnit so that the true divisions  *)
(*    `grad/num_tasks' of the code are exact on integers.                   *)
(*  - Names the source uses without binding them (img_dims, conv_trans,     *)
(*    bias, data, tqdm, list_to_tensor, LEO inside utils.py), the broken    *)
(*    line 213-214 and the placement of leo_inner_loop under forward are    *)
(*    read as the objects they are meant to denote, and the loop header of  *)
(*    line 275 (`for name, params in self.decoder.parameters()') as the     *)
(*    iteration over the decoder's parameters it is meant to be; every      *)
(*    other statement is translated as written, exceptions included.        *)
(*  - The hand-over between encoder, decoder and segmentation head is read  *)
(*    the same way: decoder_block returns the transposed convolution of     *)
(*    line 39 and the layers before it, and the decoder receives the last   *)
(*    encoder output together with the list of skip features.               *)
(*  - A float is kept as an exact fraction.                                 *)
(*  - BatchNorm running statistics and dropout masks are not modelled:      *)
(*    decoder_w stands for the trainable decoder weights only.              *)
(*  - An Adam step is abstracted to: the step counter of the optimizer      *)
(*    grows by one and the parameter moves by OuterLoopLr against the sign  *)
(*    of its gradient; a parameter whose gradient is None is skipped.       *)
(***************************************************************************)
EXTENDS Integers, Sequences, FiniteSets, TLC

VARIABLES
    \* ---- LEO object (model.py 79-95)
    decoder_w,          \* self.decoder.parameters()
    seg_weight,         \* self.seg_weight
    decoder_grad,       \* params.grad of the decoder parameters
    seg_grad,           \* self.seg_weight.grad
    opt_decoder_steps,  \* state of self.optimizer_decoder
    opt_seg_steps,      \* state of self.optimizer_seg_network
    hyper,              \* config.hyperparameters
    train_stats,        \* the train_stats object
    \* ---- one compute_loss call (model.py 237-291)
    pc,                 \* position in compute_loss and its callees
    mode,
    num_tasks,
    batch,              \* loop variable of line 257
    total_grads,
    total_val_loss,
    seg_weight_grad,    \* local of compute_loss / leo_inner_loop
    decoder_grads,      \* local of compute_loss
    val_loss,
    latents,            \* local of leo_inner_loop
    features_bound,     \* whether the local `features' is bound
    adapt_it,           \* iterations of the loop of line 169 done
    weight,             \* task-local head weight of finetuning_inner_loop
    error,              \* the exception that ended the call, or "none"
    \* ---- history of the call
    episodes_run,       \* compute_loss calls started
    updates,            \* optimizer steps applied in this call
    same_grad,          \* the g such that every task so far returned
                        \* head gradient g and decoder gradient g
    \* ---- the experiment directory models/experiment_<number>
    dir_exists,
    files,              \* file name -> content
    \* ---- one save_model or load_model call
    spc,                \* position in the call
    call,               \* the function called and its arguments
    trials,             \* local of save_model
    user_input,         \* local of save_model
    inputs_read,        \* calls of input() made by this call
    result,             \* what the call returned or raised
    \* ---- one calc_iou_per_class call (utils.py 194-203)
    iou_pc,             \* position in the call
    len_pred_x,         \* len(pred_x)
    iou_i,              \* iterations of the loop of line 197 done
    pred_x_i,           \* pred_x[i] of the last iteration: pixel -> logits
    targets_i,          \* targets[i] of the last iteration: pixel -> value
    iou_per_class,
    mean_iou_per_class,
    \* ---- one forward pass, as tensor shapes (model.py 21-28, 58-72, 115-150)
    net_pc,             \* position in the pass
    img,                \* shape of the input image x
    net_x,              \* shape of the tensor passed along (x, then o)
    net_features,       \* shapes in the list `features' of the encoder
    layer_i,            \* encoder layers applied
    pred_shape          \* shape of pred, or the exception raised

train_vars == <<decoder_w, seg_weight, decoder_grad, seg_grad,
                opt_decoder_steps, opt_seg_steps, hyper, train_stats, pc,
                mode, num_tasks, batch, total_grads, total_val_loss,
                seg_weight_grad, decoder_grads, val_loss, latents,
                features_bound, adapt_it, weight, error, episodes_run,
                updates, same_grad>>

store_vars == <<dir_exists, files, spc, call, trials, user_input,
                inputs_read, result>>

iou_vars == <<iou_pc, len_pred_x, iou_i, pred_x_i, targets_i, iou_per_class,
              mean_iou_per_class>>

net_vars == <<img, net_pc, net_x, net_features, layer_i, pred_shape>>

pure_vars == <<iou_vars, net_vars>>

vars == <<train_vars, store_vars, pure_vars>>

-----------------------------------------------------------------------------
(* Bounds *)
MaxTasks == 3
MaxAdaptSteps == 2
MaxFinetuneSteps == 2
MaxEpisodes == 1
MaxLog == 2
MaxSnapshot == 2

(* Learning rates, in abstract units *)
InnerLoopLr == 1
FinetuningLr == 1
OuterLoopLr == 1

RECURSIVE Factorial(_)
Factorial(n) == IF n <= 1 THEN 1 ELSE n * Factorial(n - 1)

GradUnit == Factorial(MaxTasks)
Grads == {GradUnit, 2 * GradUnit}
Losses == {GradUnit, 3 * GradUnit}
Modes == {"meta_train", "meta_val", "meta_test"}

(* Python's None and a present value *)
None == <<>>
Some(v) == <<v>>
Val(o) == o[1]

RECURSIVE SumSeq(_)
SumSeq(s) == IF s = <<>> THEN 0 ELSE Head(s) + SumSeq(Tail(s))

Sign(x) == IF x > 0 THEN 1 ELSE IF x < 0 THEN -1 ELSE 0

(* optimizer.step() on one parameter *)
OptimizerStep(w, grad) ==
    IF grad = None THEN w ELSE w - OuterLoopLr * Sign(Val(grad))


(* optimizer.zero_grad() on one gradient slot (torch 1.x: zeroed in place) *)
ZeroGrad(grad) == IF grad = None THEN None ELSE Some(0)

-----------------------------------------------------------------------------
(* LEO.__init__ and a fresh train_stats object *)
Hyperparameters ==
    [num_adaptation_steps : 0..MaxAdaptSteps,
     num_finetuning_steps : 1..MaxFinetuneSteps]

TrainIdle(h) ==
    /\ decoder_w = 0
    /\ seg_weight = 0
    /\ decoder_grad = None
    /\ seg_grad = None
    /\ opt_decoder_steps = 0
    /\ opt_seg_steps = 0
    /\ hyper = h
    /\ train_stats = [mode |-> "meta_train", total_val_loss |-> 0]
    /\ pc = "idle"
    /\ mode = "meta_train"
    /\ num_tasks = 0
    /\ batch = 0
    /\ total_grads = None
    /\ total_val_loss = <<>>
    /\ seg_weight_grad = None
    /\ decoder_grads = None
    /\ val_loss = None
    /\ latents = 0
    /\ features_bound = FALSE
    /\ adapt_it = 0
    /\ weight = None
    /\ error = "none"
    /\ episodes_run = 0
    /\ updates = 0
    /\ same_grad = Grads

meta_vars == <<decoder_w, seg_weight, decoder_grad, seg_grad,
               opt_decoder_steps, opt_seg_steps>>
call_vars == <<mode, num_tasks, total_grads, total_val_loss>>
inner_vars == <<latents, features_bound, adapt_it>>

(* compute_loss, lines 249-256: the call begins *)
ComputeLoss(n, m) ==
    /\ pc \in {"idle", "done"}
    /\ episodes_run < MaxEpisodes
    /\ episodes_run' = episodes_run + 1
    /\ num_tasks' = n
    /\ mode' = m
    /\ batch' = 0
    /\ total_grads' = None
    /\ total_val_loss' = <<>>
    /\ seg_weight_grad' = None
    /\ decoder_grads' = None
    /\ val_loss' = None
    /\ weight' = None
    /\ updates' = 0
    /\ same_grad' = Grads
    /\ pc' = "for_batch"
    /\ UNCHANGED <<pure_vars, store_vars, meta_vars, hyper, train_stats, inner_vars, error>>

(* leo_inner_loop, lines 166-168: the initial forward pass of a task *)
LeoInnerLoopEnter ==
    /\ pc = "for_batch"
    /\ batch < num_tasks
    /\ latents' = 0
    /\ features_bound' = FALSE
    /\ adapt_it' = 0
    /\ pc' = "leo_inner_loop"
    /\ UNCHANGED <<pure_vars, store_vars, meta_vars, hyper, train_stats, call_vars, batch,
                   seg_weight_grad, decoder_grads, val_loss, weight, error,
                   episodes_run, updates, same_grad>>

(* leo_inner_loop, lines 169-175: one adaptation step on the latents *)
LeoInnerLoopStep(latents_grad) ==
    /\ pc = "leo_inner_loop"
    /\ adapt_it < hyper.num_adaptation_steps
    /\ latents' = latents - InnerLoopLr * latents_grad
    /\ features_bound' = TRUE
    /\ adapt_it' = adapt_it + 1
    /\ UNCHANGED <<pure_vars, store_vars, meta_vars, hyper, train_stats, pc, call_vars, batch,
                   seg_weight_grad, decoder_grads, val_loss, weight, error,
                   episodes_run, updates, same_grad>>

(* leo_inner_loop, lines 176-178: the gradient wrt seg_weight, and return. *)
(* `features' is bound only by the loop body.                             *)
LeoInnerLoopReturn(grad) ==
    /\ pc = "leo_inner_loop"
    /\ adapt_it = hyper.num_adaptation_steps
    /\ IF features_bound
         THEN /\ seg_weight_grad' = Some(grad)
              /\ pc' = "finetuning_inner_loop"
              /\ error' = error
         ELSE /\ seg_weight_grad' = seg_weight_grad
              /\ pc' = "raised"
              /\ error' = "UnboundLocalError"
    /\ latents' = 0
    /\ features_bound' = FALSE
    /\ adapt_it' = 0
    /\ UNCHANGED <<pure_vars, store_vars, meta_vars, hyper, train_stats, call_vars, batch,
                   decoder_grads, val_loss, weight,
                   episodes_run, updates, same_grad>>

(* finetuning_inner_loop, lines 197-200: the task-local weight *)
FinetuningEnter ==
    /\ pc = "finetuning_inner_loop"
    /\ weight' = Some(seg_weight - FinetuningLr * Val(seg_weight_grad))
    /\ pc' = "finetuning_for"
    /\ UNCHANGED <<pure_vars, store_vars, meta_vars, hyper, train_stats, call_vars, batch,
                   seg_weight_grad, decoder_grads, val_loss, inner_vars,
                   error, episodes_run, updates, same_grad>>

(* FinetuningStep with `weight' an alias of self.seg_weight, so that the   *)
(* in-place step of line 206 writes the meta-parameter.                    *)
FinetuningStepInPlace(tr_grad, loss, head_grad, dec_grad) ==
    /\ pc = "finetuning_for"
    /\ 0 < hyper.num_finetuning_steps - 1
    /\ weight' = Some(Val(weight) - FinetuningLr * tr_grad)
    /\ seg_weight' = Val(weight) - FinetuningLr * tr_grad
    /\ val_loss' = Some(loss)
    /\ IF mode = "meta_train"
         THEN /\ seg_weight_grad' = Some(head_grad)
              /\ decoder_grads' = Some(dec_grad)
              /\ same_grad' = {g \in same_grad : head_grad = g /\ dec_grad = g}
         ELSE /\ seg_weight_grad' = None
              /\ decoder_grads' = None
              /\ same_grad' = same_grad
    /\ pc' = "returned"
    /\ UNCHANGED <<pure_vars, store_vars, decoder_w, decoder_grad, seg_grad, opt_decoder_steps,
                   opt_seg_steps, hyper, train_stats, call_vars, batch,
                   inner_vars, error, episodes_run, updates>>

(* finetuning_inner_loop, lines 201-235: the first iteration of the loop   *)
(* takes one step on weight and returns, in either mode.                   *)
FinetuningStep(tr_grad, loss, head_grad, dec_grad) ==
    /\ pc = "finetuning_for"
    /\ 0 < hyper.num_finetuning_steps - 1
    /\ weight' = Some(Val(weight) - FinetuningLr * tr_grad)
    /\ val_loss' = Some(loss)
    /\ IF mode = "meta_train"
         THEN /\ seg_weight_grad' = Some(head_grad)
              /\ decoder_grads' = Some(dec_grad)
              /\ same_grad' = {g \in same_grad : head_grad = g /\ dec_grad = g}
         ELSE /\ seg_weight_grad' = None
              /\ decoder_grads' = None
              /\ same_grad' = same_grad
    /\ pc' = "returned"
    /\ UNCHANGED <<pure_vars, store_vars, meta_vars, hyper, train_stats, call_vars, batch,
                   inner_vars, error, episodes_run, updates>>

(* finetuning_inner_loop with range(num_steps - 1) empty: the function    *)
(* falls off its end and returns None, which line 260 cannot unpack.      *)
FinetuningFallThrough ==
    /\ pc = "finetuning_for"
    /\ ~(0 < hyper.num_finetuning_steps - 1)
    /\ pc' = "raised"
    /\ error' = "TypeError"
    /\ UNCHANGED <<pure_vars, store_vars, meta_vars, hyper, train_stats, call_vars, batch,
                   seg_weight_grad, decoder_grads, val_loss, inner_vars,
                   weight, episodes_run, updates, same_grad>>


(* compute_loss, lines 263-282 in mode meta_train: the task's gradients    *)
(* are divided by num_tasks and accumulated, the gradient slots are        *)
(* cleared and assigned, and both optimizers step: all inside the loop     *)
(* over the tasks.                                                         *)
AccumulatedSegGrad(first, grad) ==
    IF first THEN grad \div num_tasks
             ELSE grad + grad \div num_tasks

AccumulatedDecoderGrads(first, grad) ==
    IF first THEN grad \div num_tasks
             ELSE Val(total_grads) + grad \div num_tasks

MetaUpdate ==
    /\ pc = "returned"
    /\ mode = "meta_train"
    /\ LET first == total_grads = None
           tg == AccumulatedDecoderGrads(first, Val(decoder_grads))
           sg == AccumulatedSegGrad(first, Val(seg_weight_grad))
       IN  /\ decoder_grads' = Some(Val(decoder_grads) \div num_tasks)
           /\ total_grads' = Some(tg)
           /\ seg_weight_grad' = Some(sg)
           /\ decoder_grad' = Some(tg)
           /\ seg_grad' = Some(sg)
           /\ decoder_w' = OptimizerStep(decoder_w, Some(tg))
           /\ seg_weight' = OptimizerStep(seg_weight, Some(sg))
    /\ opt_decoder_steps' = opt_decoder_steps + 1
    /\ opt_seg_steps' = opt_seg_steps + 1
    /\ updates' = updates + 1
    /\ total_val_loss' = Append(total_val_loss, Val(val_loss))
    /\ batch' = batch + 1
    /\ pc' = "for_batch"
    /\ UNCHANGED <<pure_vars, store_vars, hyper, train_stats, mode, num_tasks, val_loss,
                   inner_vars, weight, error, episodes_run, same_grad>>

(* compute_loss, lines 272-276 in the other modes: total_grads is still    *)
(* None when line 276 subscripts it.                                       *)
MetaUpdateEval ==
    /\ pc = "returned"
    /\ mode # "meta_train"
    /\ decoder_grad' = ZeroGrad(decoder_grad)
    /\ seg_grad' = ZeroGrad(seg_grad)
    /\ pc' = "raised"
    /\ error' = "TypeError"
    /\ UNCHANGED <<pure_vars, store_vars, decoder_w, seg_weight, opt_decoder_steps, opt_seg_steps,
                   hyper, train_stats, call_vars, batch, seg_weight_grad,
                   decoder_grads, val_loss, inner_vars, weight,
                   episodes_run, updates, same_grad>>

(* compute_loss, lines 284-291: the mean validation loss and the stats *)
ComputeLossReturn ==
    /\ pc = "for_batch"
    /\ batch = num_tasks
    /\ IF Len(total_val_loss) = 0
         THEN /\ pc' = "raised"
              /\ error' = "ZeroDivisionError"
              /\ train_stats' = train_stats
         ELSE /\ pc' = "done"
              /\ error' = error
              /\ train_stats' =
                   [mode |-> mode,
                    total_val_loss |->
                        SumSeq(total_val_loss) \div Len(total_val_loss)]
    /\ seg_weight_grad' = None
    /\ decoder_grads' = None
    /\ val_loss' = None
    /\ weight' = None
    /\ total_grads' = None
    /\ UNCHANGED <<pure_vars, store_vars, meta_vars, hyper, mode, num_tasks, total_val_loss, batch,
                   inner_vars, episodes_run, updates, same_grad>>




-----------------------------------------------------------------------------
(* File names are sequences of characters, so that formatting a name and   *)
(* parsing an episode number out of it are computed as the code does.      *)
CheckpointPrefix == <<"c","h","e","c","k","p","o","i","n","t","_">>
CheckpointSuffix == <<".","p","t","h",".","t","a","r">>
ModelLogName == <<"m","o","d","e","l","_","l","o","g",".","t","x","t">>
ValStatsLogName ==
    <<"v","a","l","_","s","t","a","t","s","_","l","o","g",".","t","x","t">>
TarExt == <<".","t","a","r">>
DigitChars == <<"0","1","2","3","4","5","6","7","8","9">>

(* str(n) for n >= 0, as the f-string of the checkpoint path formats it *)
RECURSIVE Str(_)
Str(n) ==
    IF n < 10 THEN <<DigitChars[n + 1]>>
              ELSE Str(n \div 10) \o <<DigitChars[(n % 10) + 1]>>

(* f"checkpoint_{episode}.pth.tar" *)
CheckpointName(episode) == CheckpointPrefix \o Str(episode) \o CheckpointSuffix

IsDigit(c) == \E d \in 1..10 : DigitChars[d] = c
DigitValue(c) == (CHOOSE d \in 1..10 : DigitChars[d] = c) - 1

(* The value of a Python expression, or the exception it raises *)
Ok(v) == [ok |-> TRUE, value |-> v]
Err(e) == [ok |-> FALSE, error |-> e]

(* int(s) on a string of these characters *)
RECURSIVE IntOfDigits(_)
IntOfDigits(s) ==
    IF s = <<>> THEN 0
    ELSE 10 * IntOfDigits(SubSeq(s, 1, Len(s) - 1)) + DigitValue(s[Len(s)])

ParseInt(s) ==
    IF s # <<>> /\ \A i \in 1..Len(s) : IsDigit(s[i])
      THEN Ok(IntOfDigits(s)) ELSE Err("ValueError")

(* s.split(sep): the pieces between the separators *)
RECURSIVE Split(_, _)
Split(s, sep) ==
    IF \A i \in 1..Len(s) : s[i] # sep THEN <<s>>
    ELSE LET i == CHOOSE k \in 1..Len(s) :
                     s[k] = sep /\ \A j \in 1..(k - 1) : s[j] # sep
         IN  <<SubSeq(s, 1, i - 1)>> \o Split(SubSeq(s, i + 1, Len(s)), sep)

(* os.path.splitext(name)[-1]: from the last dot, unless only dots precede *)
SplitExt(name) ==
    LET dots == {i \in 1..Len(name) : name[i] = "."}
    IN  IF dots = {} THEN <<>>
        ELSE LET last == CHOOSE i \in dots : \A j \in dots : j <= i
             IN  IF \E j \in 1..(last - 1) : name[j] # "."
                   THEN SubSeq(name, last, Len(name)) ELSE <<>>

(* The episode number read from a file name.                               *)
(* model.py 381: int(cp.split(".")[0].split("_")[1])                       *)
EpisodeOfName(cp) ==
    LET pieces == Split(Split(cp, ".")[1], "_")
    IN  IF Len(pieces) < 2 THEN Err("IndexError") ELSE ParseInt(pieces[2])

(* utils.py 282: int(cp[11]) *)
EpisodeOfNameUtils(cp) ==
    IF Len(cp) < 12 THEN Err("IndexError") ELSE ParseInt(<<cp[12]>>)

SetMax(S) == CHOOSE x \in S : \A y \in S : y <= x

-----------------------------------------------------------------------------
(* The directory *)
Put(f, name, content) ==
    [n \in DOMAIN f \cup {name} |-> IF n = name THEN content ELSE f[n]]
Remove(f, name) == [n \in DOMAIN f \ {name} |-> f[n]]
NoFiles == [n \in {} |-> <<>>]

Log(f) == IF ModelLogName \in DOMAIN f THEN f[ModelLogName] ELSE <<>>

(* LogData with mode "w" chosen even when the file exists *)
LogDataTruncating(f, msg) == Put(f, ModelLogName, <<msg>>)

(* log_data: append to the file, or create it *)
LogData(f, msg) == Put(f, ModelLogName, Append(Log(f), msg))

DeletedMsg(episode) == [event |-> "deleted", episode |-> episode]
LoadedMsg(episode) == [event |-> "loaded", episode |-> episode]

-----------------------------------------------------------------------------
(* save_model (model.py 294-355, the same text as utils.py 310-368) *)
EpisodeKeys == {3, 12}
Inputs == {"Yes", "y", "yes", "No", "n", "no", "YES", "maybe"}

PositiveOptionsWithNo == {"Yes", "y", "yes", "No"}
(* line 337 *)
positive_options == {"Yes", "y", "yes"}
NegativeOptionsWithoutN == {"No", "no"}
negative_options == {"No", "n", "no"}

AutoAnswerUpper == "YES"
(* line 336: the answer taken when prompt_deletion is false *)
AutoAnswer == "Yes"

TrialsNeverExhausted(t) == FALSE
TrialsExhaustedLate(t) == t = 4
(* line 354 *)
TrialsExhausted(t) == t = 3

(* model.state_dict(): the registered parameters.  seg_weight is a plain   *)
(* tensor attribute of LEO (lines 88-90) and is not among them.            *)
StateDict(model) == [decoder |-> model.decoder]

(* lines 311-318 *)
DataToSave(c) ==
    [mode |-> c.stats.mode,
     episode |-> c.stats.episode,
     model_state_dict |-> StateDict(c.model),
     optimizer_state_dict |-> c.optimizer,
     kl_loss |-> c.stats.kl_loss,
     total_val_loss |-> c.stats.total_val_loss]

CheckpointPath(c) == CheckpointName(c.stats.episode)

NoCall == [fn |-> "none"]
NoResult == [kind |-> "none"]
Raised(e) == [kind |-> "raised", error |-> e]

(* The training state after k optimizer steps, as handed to save_model *)
ModelAt(k) == [decoder |-> k, seg_weight |-> k]
OptimizerAt(k) == k
StatsAt(k, episode) ==
    [mode |-> "meta_train", episode |-> episode, kl_loss |-> k,
     total_val_loss |-> k]

(* lines 311-329: the call, and the write when no checkpoint is there *)
SaveModel(model, optimizer, stats, prompt_deletion) ==
    /\ spc = "idle"
    /\ Len(Log(files)) < MaxLog
    /\ LET c == [fn |-> "save_model", model |-> model,
                 optimizer |-> optimizer, stats |-> stats,
                 prompt_deletion |-> prompt_deletion]
       IN  /\ call' = c
           /\ IF CheckpointPath(c) \notin DOMAIN files
                THEN IF dir_exists
                       THEN /\ files' = Put(files, CheckpointPath(c), DataToSave(c))
                            /\ spc' = "saved"
                            /\ result' = [kind |-> "returned"]
                       ELSE /\ files' = files
                            /\ spc' = "raised"
                            /\ result' = Raised("FileNotFoundError")
                ELSE /\ files' = files
                     /\ spc' = "while"
                     /\ result' = result
    /\ trials' = 0
    /\ inputs_read' = 0
    /\ UNCHANGED <<pure_vars, train_vars, dir_exists, user_input>>

(* lines 330-355: one iteration of the loop up to the branch taken *)
SaveModelWhile(input) ==
    /\ spc = "while"
    /\ trials < 3
    /\ IF call.prompt_deletion
         THEN inputs_read' = inputs_read + 1
         ELSE input = AutoAnswer /\ inputs_read' = inputs_read
    /\ user_input' = input
    /\ IF input \in positive_options
         THEN /\ spc' = "os_remove"
              /\ UNCHANGED <<trials, result>>
         ELSE IF input \in negative_options
           THEN /\ spc' = "raised"
                /\ result' = Raised("ValueError")
                /\ trials' = trials
           ELSE /\ trials' = trials + 1
                /\ IF TrialsExhausted(trials + 1)
                     THEN /\ spc' = "raised"
                          /\ result' = Raised("ValueError")
                     ELSE /\ spc' = "while"
                          /\ result' = result
    /\ UNCHANGED <<pure_vars, train_vars, dir_exists, files, call>>

(* line 341: os.remove(checkpoint_path) *)
SaveModelRemove ==
    /\ spc = "os_remove"
    /\ files' = Remove(files, CheckpointPath(call))
    /\ spc' = "torch_save"
    /\ UNCHANGED <<pure_vars, train_vars, dir_exists, call, trials, user_input,
                   inputs_read, result>>

(* line 342: torch.save(data_to_save, checkpoint_path) *)
SaveModelWrite ==
    /\ spc = "torch_save"
    /\ files' = Put(files, CheckpointPath(call), DataToSave(call))
    /\ spc' = "log_data"
    /\ UNCHANGED <<pure_vars, train_vars, dir_exists, call, trials, user_input,
                   inputs_read, result>>

(* lines 343-346: the deletion record, and the break *)
SaveModelLog ==
    /\ spc = "log_data"
    /\ files' = LogData(files, DeletedMsg(call.stats.episode))
    /\ spc' = "replaced"
    /\ result' = [kind |-> "returned"]
    /\ UNCHANGED <<pure_vars, train_vars, dir_exists, call, trials, user_input,
                   inputs_read>>

-----------------------------------------------------------------------------
(* load_model *)
FreshSegWeights == {0, 1}
ConfiguredEpisodes == {-1} \cup EpisodeKeys

(* From max() on: model.py 381-406, utils.py 282-307.  parsed holds the    *)
(* value of the int(...) expression for each listed name; seg_init is the  *)
(* seg_weight the new LEO(config) draws for itself.                        *)
LoadFromParsed(f, parsed, cfg_episode, seg_init) ==
    LET bad == {r \in parsed : ~r.ok}
    IN  IF bad # {} THEN Raised((CHOOSE r \in bad : TRUE).error)
        ELSE IF parsed = {} THEN Raised("ValueError")
        ELSE
          LET max_cp == SetMax({r.value : r \in parsed})
              episode == IF cfg_episode = -1 THEN max_cp ELSE cfg_episode
              checkpoint_path == CheckpointName(episode)
          IN  IF checkpoint_path \notin DOMAIN f
                THEN Raised("FileNotFoundError")
                ELSE
                  LET checkpoint == f[checkpoint_path]
                  IN  [kind |-> "loaded",
                       leo |-> [decoder |-> checkpoint.model_state_dict.decoder,
                                seg_weight |-> seg_init],
                       optimizer |-> checkpoint.optimizer_state_dict,
                       stats |-> [mode |-> checkpoint.mode,
                                  episode |-> episode,
                                  kl_loss |-> checkpoint.kl_loss,
                                  total_val_loss |-> checkpoint.total_val_loss]]

(* The names a file of the directory can have *)
FileNames ==
    {CheckpointName(e) : e \in EpisodeKeys} \cup {ModelLogName, ValStatsLogName}

(* model.py 375-406 *)
load_model(exists, f, cfg_episode, seg_init) ==
    IF ~exists THEN Raised("FileNotFoundError")
    ELSE LET checkpoints == {n \in DOMAIN f : SplitExt(n) = TarExt}
         IN  LoadFromParsed(f, {EpisodeOfName(cp) : cp \in checkpoints},
                            cfg_episode, seg_init)

(* utils.py 276-307.  os.listdir returns the names in arbitrary order, so  *)
(* checkpoints.pop() drops any one of them: popped.                        *)
utils_load_model(exists, f, cfg_episode, seg_init, popped) ==
    IF ~exists THEN Raised("FileNotFoundError")
    ELSE IF DOMAIN f = {} THEN Raised("IndexError")
    ELSE LET checkpoints == DOMAIN f \ {popped}
         IN  LoadFromParsed(f, {EpisodeOfNameUtils(cp) : cp \in checkpoints},
                            cfg_episode, seg_init)

(* LoadEnds with the load record written before torch.load is tried *)
LoadEndsLogFirst(c, r) ==
    /\ spc = "idle"
    /\ Len(Log(files)) < MaxLog
    /\ call' = c
    /\ result' = r
    /\ files' = LogData(files, LoadedMsg(c.episode))
    /\ spc' = IF r.kind = "loaded" THEN "loaded" ELSE "raised"
    /\ UNCHANGED <<pure_vars, train_vars, dir_exists, trials, user_input, inputs_read>>

(* The call ends: its result and, lines 387-389, the load record *)
LoadEnds(c, r) ==
    /\ spc = "idle"
    /\ Len(Log(files)) < MaxLog
    /\ call' = c
    /\ result' = r
    /\ IF r.kind = "loaded"
         THEN /\ files' = LogData(files, LoadedMsg(r.stats.episode))
              /\ spc' = "loaded"
         ELSE /\ files' = files
              /\ spc' = "raised"
    /\ UNCHANGED <<pure_vars, train_vars, dir_exists, trials, user_input, inputs_read>>

LoadModel(cfg_episode, seg_init) ==
    /\ spc = "idle"
    /\ LoadEnds([fn |-> "load_model", module |-> "model",
                 episode |-> cfg_episode],
                load_model(dir_exists, files, cfg_episode, seg_init))

UtilsLoadModel(cfg_episode, seg_init, popped) ==
    /\ popped \in DOMAIN files \/ (DOMAIN files = {} /\ popped = <<>>)
    /\ LoadEnds([fn |-> "load_model", module |-> "utils",
                 episode |-> cfg_episode],
                utils_load_model(dir_exists, files, cfg_episode, seg_init,
                                 popped))

(* The caller goes on after the call returned; after an exception the      *)
(* process is gone and a new run starts with the same directory.           *)
Return ==
    /\ spc \in {"saved", "replaced", "loaded", "raised"}
    /\ spc' = "idle"
    /\ call' = NoCall
    /\ result' = NoResult
    /\ trials' = 0
    /\ user_input' = ""
    /\ inputs_read' = 0
    /\ UNCHANGED <<pure_vars, train_vars, dir_exists, files>>

StoreIdle ==
    /\ spc = "idle"
    /\ call = NoCall
    /\ result = NoResult
    /\ trials = 0
    /\ user_input = ""
    /\ inputs_read = 0

-----------------------------------------------------------------------------
(* calc_iou_per_class (utils.py 194-203).  A mask is a function from the   *)
(* pixels to integers; the logits of one example are a function from the   *)
(* pixels to the pair of class scores.  A float is kept as the exact       *)
(* fraction in lowest terms; nan, numpy's quotient 0/0, is the fraction    *)
(* with denominator 0.                                                     *)
NumPixels == 2
MaxBatch == 2

Pixels == 1..NumPixels
Logits == {<<0, 1>>, <<1, 0>>, <<1, 1>>}
MaskValues == {0, 1}

RECURSIVE Gcd(_, _)
Gcd(a, b) == IF b = 0 THEN a ELSE Gcd(b, a % b)

NaN == [num |-> 0, den |-> 0]

(* n / d in float arithmetic *)
Frac(n, d) ==
    IF d = 0 THEN [num |-> Sign(n), den |-> 0]
    ELSE [num |-> n \div Gcd(n, d), den |-> d \div Gcd(n, d)]

AddFrac(a, b) ==
    IF a.den = 0 \/ b.den = 0 THEN NaN
    ELSE Frac(a.num * b.den + b.num * a.den, a.den * b.den)

RECURSIVE SumFrac(_)
SumFrac(s) ==
    IF s = <<>> THEN Frac(0, 1) ELSE AddFrac(Head(s), SumFrac(Tail(s)))

(* np.mean of a non-empty list *)
Mean(s) ==
    LET total == SumFrac(s)
    IN  IF total.den = 0 THEN NaN ELSE Frac(total.num, total.den * Len(s))

(* np.argmax(..., 0) on the two class scores of a pixel: the first index   *)
(* that holds the maximum                                                  *)
Argmax(scores) == IF scores[2] > scores[1] THEN 1 ELSE 0

(* np.logical_and, np.logical_or: the pixels where the result is True *)
LogicalAnd(target, pred) == {p \in Pixels : target[p] # 0 /\ pred[p] # 0}
LogicalOr(target, pred) == {p \in Pixels : target[p] # 0 \/ pred[p] # 0}

(* Iou with the count of the target pixels as the divisor *)
IouOverTarget(target, pred) ==
    Frac(Cardinality(LogicalAnd(target, pred)),
         Cardinality({p \in Pixels : target[p] # 0}))

(* line 200 *)
Iou(target, pred) ==
    Frac(Cardinality(LogicalAnd(target, pred)),
         Cardinality(LogicalOr(target, pred)))

IouIdle ==
    /\ iou_pc = "idle"
    /\ len_pred_x = 0
    /\ iou_i = 0
    /\ pred_x_i = <<>>
    /\ targets_i = <<>>
    /\ iou_per_class = <<>>
    /\ mean_iou_per_class = None

(* line 196: the call, on a batch of n examples *)
CalcIouPerClass(n) ==
    /\ iou_pc = "idle"
    /\ iou_pc' = "for"
    /\ len_pred_x' = n
    /\ iou_i' = 0
    /\ iou_per_class' = <<>>
    /\ mean_iou_per_class' = None
    /\ UNCHANGED <<train_vars, store_vars, net_vars, pred_x_i, targets_i>>

(* lines 197-202: one iteration, on the example (scores, target_i) *)
CalcIouFor(scores, target_i) ==
    /\ iou_pc = "for"
    /\ iou_i < len_pred_x
    /\ LET pred == [p \in Pixels |-> Argmax(scores[p])]
           target == target_i
           iou == Iou(target, pred)
       IN  /\ iou_per_class' = Append(iou_per_class, iou)
           /\ mean_iou_per_class' = Some(Mean(Append(iou_per_class, iou)))
    /\ pred_x_i' = scores
    /\ targets_i' = target_i
    /\ iou_i' = iou_i + 1
    /\ UNCHANGED <<train_vars, store_vars, net_vars, iou_pc, len_pred_x>>

(* line 203.  mean_iou_per_class is bound only by the loop body: on an     *)
(* empty batch the return raises UnboundLocalError.                        *)
CalcIouReturn ==
    /\ iou_pc = "for"
    /\ iou_i = len_pred_x
    /\ iou_pc' = IF mean_iou_per_class = None THEN "raised" ELSE "returned"
    /\ UNCHANGED <<train_vars, store_vars, net_vars, len_pred_x, iou_i,
                   pred_x_i, targets_i, iou_per_class, mean_iou_per_class>>

-----------------------------------------------------------------------------
(* The forward pass as tensor shapes: EncoderBlock.forward (model.py       *)
(* 21-28), DecoderBlock (49-72), LEO.forward_segnetwork (126-128).  A      *)
(* shape is the channel count, height and width of one example.  The       *)
(* hand-over between the three parts is read as the code means it:         *)
(* conv_trans (line 42) is the transposed convolution built on line 39 and *)
(* conv_block the layers before it, and the decoder is called with the     *)
(* output of the last encoder layer and the list `features'.               *)
MaxDim == 64
Dims == (MaxDim \div 2)..MaxDim

Shape(c, h, w) == [c |-> c, h |-> h, w |-> w]
NoShape == Shape(0, 0, 0)
NoPred == [ok |-> FALSE, error |-> "none"]

(* nn.Conv2d(in_channels, out_channels, kernel_size, stride, padding) *)
Conv2d(s, in_channels, out_channels, kernel_size, stride, padding) ==
    IF s.c # in_channels THEN Err("RuntimeError")
    ELSE Ok(Shape(out_channels,
                  (s.h + 2 * padding - kernel_size) \div stride + 1,
                  (s.w + 2 * padding - kernel_size) \div stride + 1))

(* nn.ConvTranspose2d(in_channels, out_channels, kernel_size, stride,      *)
(* padding)                                                                *)
ConvTranspose2d(s, in_channels, out_channels, kernel_size, stride, padding) ==
    IF s.c # in_channels THEN Err("RuntimeError")
    ELSE Ok(Shape(out_channels,
                  (s.h - 1) * stride - 2 * padding + kernel_size,
                  (s.w - 1) * stride - 2 * padding + kernel_size))

(* torch.cat([a, b], dim=1) *)
Cat(a, b) ==
    IF a.h # b.h \/ a.w # b.w THEN Err("RuntimeError")
    ELSE Ok(Shape(a.c + b.c, a.h, a.w))

(* models.mobilenet_v2(...).features (line 18): the output channels and    *)
(* the stride of the 3x3, padding-1 convolution of each of torchvision's   *)
(* 19 layers; the last layer is a 1x1 convolution                          *)
MobileNetV2Features ==
    <<[out |-> 32, stride |-> 2], [out |-> 16, stride |-> 1],
      [out |-> 24, stride |-> 2], [out |-> 24, stride |-> 1],
      [out |-> 32, stride |-> 2], [out |-> 32, stride |-> 1],
      [out |-> 32, stride |-> 1], [out |-> 64, stride |-> 2],
      [out |-> 64, stride |-> 1], [out |-> 64, stride |-> 1],
      [out |-> 64, stride |-> 1], [out |-> 96, stride |-> 1],
      [out |-> 96, stride |-> 1], [out |-> 96, stride |-> 1],
      [out |-> 160, stride |-> 2], [out |-> 160, stride |-> 1],
      [out |-> 160, stride |-> 1], [out |-> 320, stride |-> 1],
      [out |-> 1280, stride |-> 1]>>

(* line 23 *)
output_layers == {1, 3, 6, 13}

(* line 25: x = layer(x), for the layer of index l (from 0) *)
LayerOut(s, l) ==
    LET layer == MobileNetV2Features[l + 1]
    IN  Conv2d(s, s.c, layer.out, 3, layer.stride, 1).value

(* line 51 *)
base_chn == 8

(* lines 52-55: the arguments of the four decoder_block calls *)
DecoderBlocks ==
    <<[trans_in |-> 1280, trans_out |-> base_chn,
       conv |-> 96 + base_chn],
      [trans_in |-> 96 + base_chn, trans_out |-> base_chn * 2,
       conv |-> 32 + base_chn * 2],
      [trans_in |-> 32 + base_chn * 2, trans_out |-> base_chn * 3,
       conv |-> 24 + base_chn * 3],
      [trans_in |-> 24 + base_chn * 3, trans_out |-> base_chn * 4,
       conv |-> 16 + base_chn * 4]>>

(* lines 59-61 and the like: conv_trans, cat with the skip, conv block *)
DecoderStage(o, skip, block) ==
    LET up == ConvTranspose2d(o, block.trans_in, block.trans_out, 4, 2, 1)
    IN  IF ~up.ok THEN up
        ELSE LET joined == Cat(up.value, skip)
             IN  IF ~joined.ok THEN joined
                 ELSE Conv2d(joined.value, block.conv, block.conv, 3, 1, 1)

(* DecoderBlock.forward, lines 59-72: stage k takes concat_features[-k] *)
RECURSIVE DecoderStages(_, _, _)
DecoderStages(o, concat_features, k) ==
    IF k = 0 THEN Ok(o)
    ELSE LET before == DecoderStages(o, concat_features, k - 1)
         IN  IF ~before.ok THEN before
             ELSE DecoderStage(before.value,
                               concat_features[Len(concat_features) + 1 - k],
                               DecoderBlocks[k])

DecoderForward(s, concat_features) ==
    LET o == DecoderStages(s, concat_features, 4)
    IN  IF ~o.ok THEN o
        ELSE ConvTranspose2d(o.value, 16 + base_chn * 4, 16 + base_chn * 4,
                             4, 2, 1)

(* forward_segnetwork, lines 126-127, with the weight of line 88 *)
ForwardSegnetworkShape(decoder_out, s) ==
    LET o == Cat(decoder_out, s)
    IN  IF ~o.ok THEN o
        ELSE Conv2d(o.value, 16 + 8 * 4 + 3, 2, 3, 1, 1)

NetIdle ==
    /\ net_pc = "idle"
    /\ img = NoShape
    /\ net_x = NoShape
    /\ net_features = <<>>
    /\ layer_i = 0
    /\ pred_shape = NoPred

(* forward (line 143) on an RGB image of height h and width w *)
Forward(h, w) ==
    /\ net_pc = "idle"
    /\ net_pc' = "encoder"
    /\ img' = Shape(3, h, w)
    /\ net_x' = Shape(3, h, w)
    /\ net_features' = <<>>
    /\ layer_i' = 0
    /\ UNCHANGED <<train_vars, store_vars, iou_vars, pred_shape>>

(* EncoderBlock.forward, lines 24-27: one iteration *)
EncoderLayer ==
    /\ net_pc = "encoder"
    /\ layer_i < Len(MobileNetV2Features)
    /\ net_x' = LayerOut(net_x, layer_i)
    /\ net_features' =
          IF layer_i \in output_layers
            THEN Append(net_features, LayerOut(net_x, layer_i))
            ELSE net_features
    /\ layer_i' = layer_i + 1
    /\ UNCHANGED <<train_vars, store_vars, iou_vars, net_pc, img, pred_shape>>

(* forward_decoder (line 148) on the encoder's outputs *)
ForwardDecoder ==
    /\ net_pc = "encoder"
    /\ layer_i = Len(MobileNetV2Features)
    /\ LET features == DecoderForward(net_x, net_features)
       IN  IF features.ok
             THEN /\ net_x' = features.value
                  /\ net_pc' = "forward_segnetwork"
                  /\ pred_shape' = pred_shape
             ELSE /\ net_x' = net_x
                  /\ net_pc' = "raised"
                  /\ pred_shape' = features
    /\ UNCHANGED <<train_vars, store_vars, iou_vars, img, net_features,
                   layer_i>>

(* forward_segnetwork (line 149) on the decoder's output and the image *)
ForwardSegnetwork ==
    /\ net_pc = "forward_segnetwork"
    /\ pred_shape' = ForwardSegnetworkShape(net_x, img)
    /\ net_pc' = IF ForwardSegnetworkShape(net_x, img).ok
                   THEN "done" ELSE "raised"
    /\ UNCHANGED <<train_vars, store_vars, iou_vars, img, net_x,
                   net_features, layer_i>>

-----------------------------------------------------------------------------
(* The directory before the first checkpoint: missing, empty, or holding   *)
(* the val_stats_log.txt the training script writes.                       *)
InitStore ==
    /\ TrainIdle([num_adaptation_steps |-> 1, num_finetuning_steps |-> 2])
    /\ StoreIdle
    /\ IouIdle
    /\ NetIdle
    /\ \/ dir_exists = FALSE /\ files = NoFiles
       \/ dir_exists = TRUE /\ files = NoFiles
       \/ dir_exists = TRUE /\ files = Put(NoFiles, ValStatsLogName, <<>>)

NextStore ==
    \/ \E k \in 1..MaxSnapshot, e \in EpisodeKeys, p \in BOOLEAN :
          SaveModel(ModelAt(k), OptimizerAt(k), StatsAt(k, e), p)
    \/ \E input \in Inputs : SaveModelWhile(input)
    \/ SaveModelRemove
    \/ SaveModelWrite
    \/ SaveModelLog
    \/ \E cfg \in ConfiguredEpisodes, s \in FreshSegWeights : LoadModel(cfg, s)
    \/ \E cfg \in ConfiguredEpisodes, s \in FreshSegWeights,
          popped \in FileNames \cup {<<>>} : UtilsLoadModel(cfg, s, popped)
    \/ Return

SpecStore == InitStore /\ [][NextStore]_vars

NextTrain ==
    \/ \E n \in 0..MaxTasks, m \in Modes : ComputeLoss(n, m)
    \/ LeoInnerLoopEnter
    \/ \E g \in Grads : LeoInnerLoopStep(g)
    \/ \E g \in Grads : LeoInnerLoopReturn(g)
    \/ FinetuningEnter
    \/ \E g \in Grads, l \in Losses, hg \in Grads, dg \in Grads :
          FinetuningStep(g, l, hg, dg)
    \/ FinetuningFallThrough
    \/ MetaUpdate
    \/ MetaUpdateEval
    \/ ComputeLossReturn

InitTrain ==
    /\ \E h \in Hyperparameters : TrainIdle(h)
    /\ StoreIdle
    /\ IouIdle
    /\ NetIdle
    /\ dir_exists = TRUE
    /\ files = NoFiles

SpecTrain == InitTrain /\ [][NextTrain]_vars

(* calc_iou_per_class and the forward pass are functions of their          *)
(* arguments: each is run on its own, beside an idle training state and    *)
(* an idle, empty directory.                                               *)
InitPure ==
    /\ TrainIdle([num_adaptation_steps |-> 1, num_finetuning_steps |-> 2])
    /\ StoreIdle
    /\ IouIdle
    /\ NetIdle
    /\ dir_exists = TRUE
    /\ files = NoFiles

NextIou ==
    \/ \E n \in 0..MaxBatch : CalcIouPerClass(n)
    \/ \E scores \in [Pixels -> Logits], target_i \in [Pixels -> MaskValues] :
          CalcIouFor(scores, target_i)
    \/ CalcIouReturn

SpecIou == InitPure /\ [][NextIou]_vars

NextNet ==
    \/ \E h \in Dims, w \in Dims : Forward(h, w)
    \/ EncoderLayer
    \/ ForwardDecoder
    \/ ForwardSegnetwork

SpecNet == InitPure /\ [][NextNet]_vars

-----------------------------------------------------------------------------
(* Properties of the training episode *)

(* C1: in a meta_train call of compute_loss the optimizer step is applied  *)
(* exactly once, and only after every task of the batch has been through   *)
(* its inner loop and its finetuning loop: no update while tasks remain.   *)
C1_OneUpdateAfterAllTasks ==
    /\ (updates > 0 => batch = num_tasks)
    /\ (pc = "done" /\ mode = "meta_train" => updates = 1)

(* C2: when every task of the batch returned head gradient g and decoder   *)
(* gradient g, the gradients assigned to the decoder parameters and to     *)
(* seg_weight after the whole batch are g.                                 *)
C2_AveragedGradientIsG ==
    \A g \in Grads :
        (pc = "done" /\ mode = "meta_train" /\ same_grad = {g})
            => (decoder_grad = Some(g) /\ seg_grad = Some(g))

(* C3: no step of leo_inner_loop or finetuning_inner_loop changes the      *)
(* decoder weights or seg_weight; the finetuned weight stays task-local.   *)
InPerTaskLoops ==
    \/ pc \in {"leo_inner_loop", "finetuning_inner_loop", "finetuning_for"}
    \/ (pc = "for_batch" /\ batch < num_tasks)

C3_LoopsKeepMetaParameters ==
    [][InPerTaskLoops => (decoder_w' = decoder_w /\ seg_weight' = seg_weight)]_vars

C3_Witness ==
    /\ pc = "returned"
    /\ hyper.num_adaptation_steps = MaxAdaptSteps
    /\ batch >= 1
    /\ weight # None
    /\ weight # Some(seg_weight)


-----------------------------------------------------------------------------
(* Properties of the checkpoint store *)

EpisodesPresent(f) == {e \in EpisodeKeys : CheckpointName(e) \in DOMAIN f}
DeletionRecords(f) ==
    Cardinality({i \in 1..Len(Log(f)) : Log(f)[i].event = "deleted"})
SaveCompletes ==
    /\ call'.fn = "save_model"
    /\ spc' \in {"saved", "replaced"}
    /\ spc \notin {"saved", "replaced"}

(* C4: once save_model has written a training state, load_model for the    *)
(* same episode returns the meta-parameters (decoder weights and           *)
(* seg_weight), the optimizer state and the stats fields that were saved.  *)
C4_RoundTrip ==
    [][SaveCompletes =>
         \A s \in FreshSegWeights :
            LET out == load_model(dir_exists', files', call'.stats.episode, s)
            IN  /\ out.kind = "loaded"
                /\ out.leo = call'.model
                /\ out.optimizer = call'.optimizer
                /\ out.stats = call'.stats]_vars

(* C5: with prompt_deletion false a save never reads an input and never    *)
(* counts a trial; over an existing checkpoint it raises nothing, removes  *)
(* the prior file and then holds the new data at the same path.            *)
C5_SilentOverwrite ==
    (call.fn = "save_model" /\ ~call.prompt_deletion) =>
        /\ inputs_read = 0
        /\ trials = 0
        /\ (spc = "raised" => ~dir_exists)
        /\ (spc = "torch_save" => CheckpointPath(call) \notin DOMAIN files)
        /\ (spc \in {"log_data", "replaced"} =>
               /\ CheckpointPath(call) \in DOMAIN files
               /\ files[CheckpointPath(call)] = DataToSave(call))

C5_Witness ==
    /\ spc = "replaced"
    /\ call.fn = "save_model"
    /\ ~call.prompt_deletion
    /\ files[CheckpointPath(call)] = DataToSave(call)
    /\ call.stats.episode = 12

(* C6: in a prompted overwrite every unrecognized input counts one trial;  *)
(* the third one raises ValueError after three inputs; and no step from    *)
(* the call to that error changes any file of the directory.               *)
C6_ThreeUnrecognizedRaise ==
    [][/\ (spc' = "while" \/ (spc = "while" /\ spc' = "raised"))
             => files' = files
       /\ (spc = "while" /\ call.prompt_deletion
              /\ user_input' \notin {"Yes", "y", "yes", "No", "n", "no"})
             => trials' = trials + 1
       /\ (spc = "while" /\ call.prompt_deletion /\ trials' = 3)
             => /\ spc' = "raised"
                /\ result' = Raised("ValueError")
                /\ inputs_read' = 3]_vars

C6_Witness ==
    /\ spc = "raised"
    /\ call.fn = "save_model"
    /\ call.prompt_deletion
    /\ trials = 3
    /\ inputs_read = 3
    /\ CheckpointPath(call) \in DOMAIN files

(* C7: a negative token read at a prompt ends save_model with ValueError   *)
(* in that very step, after any number of unrecognized inputs: no file     *)
(* and no log record changes, and after the error nothing but the end of   *)
(* the call follows.                                                       *)
C7_RefusalAbortsAtOnce ==
    [][/\ (spc = "while" /\ call.prompt_deletion
              /\ user_input' \in {"No", "n", "no"})
             => /\ spc' = "raised"
                /\ result' = Raised("ValueError")
                /\ trials' = trials
                /\ inputs_read' = inputs_read + 1
                /\ files' = files
       /\ spc = "raised" => (spc' = "idle" /\ files' = files)]_vars

C7_Witness ==
    /\ spc = "raised"
    /\ call.fn = "save_model"
    /\ call.prompt_deletion
    /\ user_input \in {"No", "n", "no"}
    /\ trials = 2
    /\ inputs_read = 3

(* C8: after an affirmative token save_model removes the old checkpoint,   *)
(* then writes the new one at the same path, then appends one deletion     *)
(* record and returns; a deletion record appears in the log only in that   *)
(* last step, when the new checkpoint is already written.                  *)
C8_RemoveWriteLog ==
    [][/\ (spc = "while" /\ user_input' \in {"Yes", "y", "yes"})
             => (spc' = "os_remove" /\ files' = files)
       /\ spc = "os_remove"
             => /\ spc' = "torch_save"
                /\ CheckpointPath(call) \in DOMAIN files
                /\ files' = Remove(files, CheckpointPath(call))
       /\ spc = "torch_save"
             => /\ spc' = "log_data"
                /\ files' = Put(files, CheckpointPath(call), DataToSave(call))
       /\ spc = "log_data"
             => /\ spc' = "replaced"
                /\ files[CheckpointPath(call)] = DataToSave(call)
                /\ files'[CheckpointPath(call)] = DataToSave(call)
                /\ Log(files') =
                      Append(Log(files), DeletedMsg(call.stats.episode))
       /\ DeletionRecords(files') # DeletionRecords(files)
             => /\ spc = "log_data"
                /\ DeletionRecords(files') = DeletionRecords(files) + 1]_vars

C8_Witness ==
    /\ spc = "replaced"
    /\ call.fn = "save_model"
    /\ call.prompt_deletion
    /\ trials = 2
    /\ Len(Log(files)) = 2
    /\ Log(files)[2] = DeletedMsg(call.stats.episode)

(* C9: load_model with episode -1 loads the checkpoint of the greatest     *)
(* episode number among the checkpoint files of the directory, whatever    *)
(* else the directory holds.                                               *)
C9_LatestIsMaximum ==
    (call.fn = "load_model" /\ call.episode = -1
        /\ EpisodesPresent(files) # {})
      => /\ result.kind = "loaded"
         /\ result.stats.episode = SetMax(EpisodesPresent(files))

(* C10: load_model with a configured episode e other than -1 whose         *)
(* checkpoint exists loads the checkpoint of episode e, whatever else the  *)
(* directory holds.                                                        *)
C10_ExactEpisode ==
    (call.fn = "load_model" /\ call.episode # -1
        /\ CheckpointName(call.episode) \in DOMAIN files)
      => /\ result.kind = "loaded"
         /\ result.stats.episode = call.episode
         /\ result.optimizer =
               files[CheckpointName(call.episode)].optimizer_state_dict
         /\ result.leo.decoder =
               files[CheckpointName(call.episode)].model_state_dict.decoder

(* C11: load_model raises when the directory is missing or when the        *)
(* checkpoint asked for is not there (for episode -1: when no checkpoint   *)
(* is there); a load that raises changes no file and no log record; the    *)
(* load record is appended only by a load that has read its checkpoint.    *)
TargetPresent(f, cfg_episode) ==
    IF cfg_episode = -1 THEN EpisodesPresent(f) # {}
                        ELSE CheckpointName(cfg_episode) \in DOMAIN f

C11_FailedLoadChangesNothing ==
    [][(spc = "idle" /\ call'.fn = "load_model") =>
          /\ (~dir_exists \/ ~TargetPresent(files, call'.episode))
                => result'.kind = "raised"
          /\ result'.kind = "raised" => files' = files
          /\ files' # files
                => /\ result'.kind = "loaded"
                   /\ CheckpointName(result'.stats.episode) \in DOMAIN files
                   /\ files' =
                        LogData(files, LoadedMsg(result'.stats.episode))]_vars

C11_Witness ==
    /\ spc = "raised"
    /\ call.fn = "load_model"
    /\ call.episode = 12
    /\ result = Raised("FileNotFoundError")
    /\ dir_exists
    /\ EpisodesPresent(files) = {3}
    /\ Len(Log(files)) = 1

-----------------------------------------------------------------------------
(* Further properties of the training episode *)

(* C12: with num_adaptation_steps = 0 the loop body of leo_inner_loop      *)
(* never runs and the function returns normally: no latent update has      *)
(* been applied, the call goes on to finetuning_inner_loop with the        *)
(* gradient of the initial forward pass, and no exception is raised.       *)
C12_ZeroStepsReturnsNormally ==
    [][(pc = "leo_inner_loop" /\ hyper.num_adaptation_steps = 0) =>
          /\ adapt_it = 0
          /\ latents = 0
          /\ pc' = "finetuning_inner_loop"
          /\ seg_weight_grad' \in {Some(g) : g \in Grads}
          /\ error' = "none"]_vars

(* C17: whatever num_finetuning_steps >= 1 is configured and whatever the  *)
(* mode, finetuning_inner_loop hands a validation result back to           *)
(* compute_loss: from its loop the call always reaches line 263 with       *)
(* val_loss bound, and raises nothing.                                     *)
C17_FinetuningReturnsResult ==
    [][pc = "finetuning_for" =>
          /\ pc' = "returned"
          /\ val_loss' \in {Some(l) : l \in Losses}
          /\ error' = "none"]_vars

(* C18: in a meta_val or meta_test call of compute_loss the finetuner      *)
(* returns None for both gradients, every task of the batch is completed   *)
(* and its validation loss collected, the call returns the mean of the     *)
(* validation losses, and no step changes the decoder weights, seg_weight  *)
(* or the state of either optimizer.                                       *)
C18_EvalEpisodeCompletes ==
    [][mode # "meta_train" =>
          /\ (pc = "finetuning_for" /\ pc' = "returned")
                => (seg_weight_grad' = None /\ decoder_grads' = None)
          /\ pc = "returned"
                => /\ pc' = "for_batch"
                   /\ batch' = batch + 1
                   /\ total_val_loss' = Append(total_val_loss, Val(val_loss))
                   /\ error' = "none"
          /\ (pc = "for_batch" /\ batch = num_tasks /\ num_tasks > 0)
                => /\ pc' = "done"
                   /\ train_stats'.total_val_loss =
                        SumSeq(total_val_loss) \div num_tasks
          /\ decoder_w' = decoder_w
          /\ seg_weight' = seg_weight
          /\ opt_decoder_steps' = opt_decoder_steps
          /\ opt_seg_steps' = opt_seg_steps]_vars

-----------------------------------------------------------------------------
(* Further properties of the checkpoint store *)

(* C13: an existing checkpoint of episode e is removed or changed only by  *)
(* the os.remove of a save_model call for that same episode e whose        *)
(* question was answered with an affirmative token; every step that ends   *)
(* a call in an exception or keeps it asking, and every step of a          *)
(* load_model call, leaves every checkpoint as it was, and an exception    *)
(* is only raised before anything was removed.                             *)
CheckpointChanged(e) ==
    /\ CheckpointName(e) \in DOMAIN files
    /\ \/ CheckpointName(e) \notin DOMAIN files'
       \/ files'[CheckpointName(e)] # files[CheckpointName(e)]

C13_ChangedOnlyByConfirmedReplacement ==
    [][/\ \A e \in EpisodeKeys :
             CheckpointChanged(e)
                => /\ spc = "os_remove"
                   /\ call.fn = "save_model"
                   /\ call.stats.episode = e
                   /\ user_input \in {"Yes", "y", "yes"}
       /\ spc' \in {"while", "raised"}
             => (spc \in {"idle", "while"} /\ files' = files)
       /\ call'.fn = "load_model"
             => \A e \in EpisodeKeys : ~CheckpointChanged(e)]_vars

C13_Witness ==
    /\ spc = "loaded"
    /\ Log(files) = <<DeletedMsg(3), LoadedMsg(12)>>
    /\ CheckpointName(3) \in DOMAIN files
    /\ CheckpointName(12) \in DOMAIN files
    /\ files[CheckpointName(3)].kl_loss = 2
    /\ files[CheckpointName(12)].kl_loss = 1

(* A save_model call that has started goes on running, and input() returns *)
(* whenever the operator has typed a line.                                 *)
SaveModelSteps ==
    \/ \E input \in Inputs : SaveModelWhile(input)
    \/ SaveModelRemove
    \/ SaveModelWrite
    \/ SaveModelLog

SpecStoreFair == InitStore /\ [][NextStore]_vars /\ WF_vars(SaveModelSteps)

(* C16: a prompted overwrite asks at most three times, whatever is typed:  *)
(* while it is asking, every input so far was unrecognized and fewer than  *)
(* three were read; an affirmative token at any prompt leads to the        *)
(* removal, a negative token or the third unrecognized input to            *)
(* ValueError, any other input to the next prompt; and the call always     *)
(* ends, replaced after an affirmative token, replaced or raised           *)
(* otherwise.                                                              *)
C16_PromptTerminates ==
    /\ []((call.fn = "save_model" /\ call.prompt_deletion) =>
            /\ inputs_read <= 3
            /\ (spc = "while" => (trials = inputs_read /\ trials < 3)))
    /\ [][(spc = "while" /\ call.prompt_deletion) =>
            /\ inputs_read' = inputs_read + 1
            /\ IF user_input' \in {"Yes", "y", "yes"}
                 THEN spc' = "os_remove"
                 ELSE IF user_input' \in {"No", "n", "no"} \/ inputs_read' = 3
                   THEN spc' = "raised" /\ result' = Raised("ValueError")
                   ELSE spc' = "while"]_vars
    /\ (spc = "while") ~> (spc \in {"replaced", "raised"})
    /\ (spc = "os_remove") ~> (spc = "replaced")

C16_Witness ==
    /\ spc = "replaced"
    /\ call.fn = "save_model"
    /\ call.prompt_deletion
    /\ inputs_read = 3
    /\ user_input = "y"
    /\ files[CheckpointPath(call)] = DataToSave(call)

-----------------------------------------------------------------------------
(* Properties of calc_iou_per_class and of the forward pass *)

PredPixels == {p \in Pixels : pred_x_i[p][2] > pred_x_i[p][1]}
TargetPixels == {p \in Pixels : targets_i[p] = 1}

RECURSIVE ProdDen(_)
ProdDen(s) == IF s = <<>> THEN 1 ELSE Head(s).den * ProdDen(Tail(s))

RECURSIVE ScaledSum(_, _)
ScaledSum(s, d) ==
    IF s = <<>> THEN 0
    ELSE Head(s).num * (d \div Head(s).den) + ScaledSum(Tail(s), d)

(* C14: for an example whose predicted mask and target mask have a         *)
(* non-empty union, the IoU appended for it is the count of the            *)
(* intersection divided by the count of the union, lies in [0, 1], is 1    *)
(* when the two masks are equal and 0 when they are disjoint and both      *)
(* non-empty; and the value returned for a batch of such examples is the   *)
(* sum of their IoUs divided by the size of the batch.                     *)
C14_IouAndItsMean ==
    /\ (iou_i > 0 /\ PredPixels \cup TargetPixels # {}) =>
          LET v == iou_per_class[iou_i]
          IN  /\ v.den > 0
              /\ v.num * Cardinality(PredPixels \cup TargetPixels)
                    = Cardinality(PredPixels \cap TargetPixels) * v.den
              /\ 0 <= v.num
              /\ v.num <= v.den
              /\ (PredPixels = TargetPixels => v.num = v.den)
              /\ (PredPixels \cap TargetPixels = {}
                    /\ PredPixels # {} /\ TargetPixels # {}) => v.num = 0
    /\ (iou_pc = "returned"
          /\ \A k \in 1..Len(iou_per_class) : iou_per_class[k].den > 0) =>
          LET m == Val(mean_iou_per_class)
              d == ProdDen(iou_per_class)
          IN  /\ Len(iou_per_class) = len_pred_x
              /\ m.den > 0
              /\ m.num * d * len_pred_x = ScaledSum(iou_per_class, d) * m.den

C14_Witness ==
    /\ iou_pc = "returned"
    /\ len_pred_x = 2
    /\ iou_per_class = <<[num |-> 1, den |-> 2], [num |-> 1, den |-> 1]>>
    /\ mean_iou_per_class = Some([num |-> 3, den |-> 4])
    /\ PredPixels = TargetPixels

(* C15: for an image of any height and width the forward pass raises at    *)
(* no concatenation and no convolution, and the prediction it returns has  *)
(* the height and the width of the image.                                  *)
C15_PredictionHasImageSize ==
    /\ net_pc # "raised"
    /\ net_pc = "done" =>
          (pred_shape.value.h = img.h /\ pred_shape.value.w = img.w)

=============================================================================
